---- MODULE Spec2Model ----
(***************************************************************************)
(* Model of the language-server core in src/src/lsproto.rs: the framing    *)
(* reader and dispatcher loop of run_server, parse_message, the handlers   *)
(* of LSService (build, convert_pos_to_span, hover, goto_def,              *)
(* find_all_refs) and the worker threads they spawn.                       *)
(*                                                                         *)
(* Strings the code only compares with literals (JSON keys, method names,  *)
(* header tokens) are TLA+ strings; strings the code takes apart (uris,    *)
(* paths, source lines) are sequences of one-character strings.            *)
(***************************************************************************)
EXTENDS Integers, Sequences, FiniteSets, TLC

VARIABLES
    pc,               \* position of the dispatcher thread in run_server
    frame,            \* the frame read by the last iteration of the loop
    current_project,  \* LSService.current_project : Option<String>
    out,              \* replies written to stdout while handling `frame`
    calls,            \* collaborator calls made while handling `frame`
    worker,           \* the worker thread spawned by the running handler
    token,            \* park token of the dispatcher thread (set by unpark)
    expired,          \* the deadline of the running handler ran out while
                      \* its worker was still in the backend query
    nread,            \* frames read so far
    nreq,             \* non-shutdown requests dispatched so far
    nnotif,           \* notifications dispatched so far
    nreplies          \* replies written to stdout so far

vars == <<pc, frame, current_project, out, calls, worker, token, expired,
          nread, nreq, nnotif, nreplies>>

----------------------------------------------------------------------------
(* Bounds of the model *)

MaxMsgs == 3       \* frames read in one session
MaxId == 1         \* request ids are 0..MaxId
MaxChanges == 2    \* content changes in one didChange batch
MaxChar == 0       \* caret character indices are 0..MaxChar
MaxCaret == 11     \* caret character indices of the resolver run

(* Program constants *)

RUSTW_TIMEOUT == 500
MethodNotFound == -32601
Incremental == 2

----------------------------------------------------------------------------
(* Option<T> *)

None == [some |-> FALSE]
Some(v) == [some |-> TRUE, val |-> v]

(* s with its first n elements removed: Iterator::skip(n) *)
Skip(s, n) == IF n >= Len(s) THEN <<>> ELSE SubSeq(s, n + 1, Len(s))

FilePrefix == <<"f", "i", "l", "e", ":", "/", "/">>

----------------------------------------------------------------------------
(* serde_json::Value, as far as parse_message looks at it *)

JStr(s) == [t |-> "str", s |-> s]
JNum(n) == [t |-> "num", n |-> n]
JBool(b) == [t |-> "bool", b |-> b]
JArr(a) == [t |-> "arr", a |-> a]
JObj(o) == [t |-> "obj", o |-> o]
NotJson == [t |-> "notjson"]      \* a body serde_json::from_str rejects

Lookup(v, k) == IF v.t = "obj" /\ k \in DOMAIN v.o THEN Some(v.o[k]) ELSE None
AsStr(v) == IF v.t = "str" THEN Some(v.s) ELSE None
AsU64(v) == IF v.t = "num" /\ v.n >= 0 THEN Some(v.n) ELSE None

IsObjWith(v, keys) == v.t = "obj" /\ keys \subseteq DOMAIN v.o
IsU64(v) == v.t = "num" /\ v.n >= 0

(* serde_json::from_value::<T>: None stands for Err *)
DePosition(v) ==
    IF IsObjWith(v, {"line", "character"}) /\ IsU64(v.o.line) /\ IsU64(v.o.character)
    THEN Some([line |-> v.o.line.n, character |-> v.o.character.n])
    ELSE None

DeRange(v) ==
    IF IsObjWith(v, {"start", "end"})
       /\ DePosition(v.o.start).some /\ DePosition(v.o.end).some
    THEN Some([start |-> DePosition(v.o.start).val, end |-> DePosition(v.o.end).val])
    ELSE None

DeDocument(v) ==
    IF IsObjWith(v, {"uri"}) /\ v.o.uri.t = "str"
    THEN Some([uri |-> v.o.uri.s])
    ELSE None

DeVersionedTextDocumentIdentifier(v) ==
    IF IsObjWith(v, {"version", "uri"}) /\ IsU64(v.o.version) /\ v.o.uri.t = "str"
    THEN Some([version |-> v.o.version.n, uri |-> v.o.uri.s])
    ELSE None

DeTextDocumentContentChangeEvent(v) ==
    IF IsObjWith(v, {"range", "text"}) /\ DeRange(v.o.range).some /\ v.o.text.t = "str"
    THEN Some([range |-> DeRange(v.o.range).val, text |-> v.o.text.s])
    ELSE None

DeInitializeParams(v) ==
    IF IsObjWith(v, {"processId", "rootPath"})
       /\ IsU64(v.o.processId) /\ v.o.rootPath.t = "str"
    THEN Some([processId |-> v.o.processId.n, rootPath |-> v.o.rootPath.s])
    ELSE None

DeTextDocumentPositionParams(v) ==
    IF IsObjWith(v, {"textDocument", "position"})
       /\ DeDocument(v.o.textDocument).some /\ DePosition(v.o.position).some
    THEN Some([textDocument |-> DeDocument(v.o.textDocument).val,
               position |-> DePosition(v.o.position).val])
    ELSE None

DeHoverParams(v) == DeTextDocumentPositionParams(v)

DeReferenceContext(v) ==
    IF IsObjWith(v, {"includeDeclaration"}) /\ v.o.includeDeclaration.t = "bool"
    THEN Some([includeDeclaration |-> v.o.includeDeclaration.b])
    ELSE None

DeReferenceParams(v) ==
    IF IsObjWith(v, {"textDocument", "position", "context"})
       /\ DeDocument(v.o.textDocument).some /\ DePosition(v.o.position).some
       /\ DeReferenceContext(v.o.context).some
    THEN Some([textDocument |-> DeDocument(v.o.textDocument).val,
               position |-> DePosition(v.o.position).val,
               context |-> DeReferenceContext(v.o.context).val])
    ELSE None

DeChangeParams(v) ==
    IF IsObjWith(v, {"textDocument", "contentChanges"})
       /\ DeVersionedTextDocumentIdentifier(v.o.textDocument).some
       /\ v.o.contentChanges.t = "arr"
       /\ \A i \in DOMAIN v.o.contentChanges.a :
              DeTextDocumentContentChangeEvent(v.o.contentChanges.a[i]).some
    THEN Some([textDocument |-> DeVersionedTextDocumentIdentifier(v.o.textDocument).val,
               contentChanges |->
                   [i \in DOMAIN v.o.contentChanges.a |->
                       DeTextDocumentContentChangeEvent(v.o.contentChanges.a[i]).val]])
    ELSE None

DeCancelParams(v) ==
    IF IsObjWith(v, {"id"}) /\ IsU64(v.o.id)
    THEN Some([id |-> v.o.id.n])
    ELSE None

----------------------------------------------------------------------------
(* parse_message: Ok(ServerMessage), Err(InvalidData) or a panic of one of *)
(* its unwrap calls                                                        *)

ParseOk(m) == [r |-> "Ok", msg |-> m]
ParseErr(e) == [r |-> "Err", e |-> e]
ParsePanic == [r |-> "Panic"]

Request(id, name, params) ==
    [kind |-> "Request", id |-> id, method |-> name, params |-> params]
Notification(name, params) ==
    [kind |-> "Notification", method |-> name, params |-> params]

(* ls_command.lookup("id").unwrap().as_u64().unwrap() as usize *)
RequestId(v) ==
    IF Lookup(v, "id").some THEN AsU64(Lookup(v, "id").val) ELSE None

(* serde_json::from_value into the params type of the request variant *)
DeParams(name, v) ==
    CASE name = "Initialize" -> DeInitializeParams(v)
      [] name = "Hover" -> DeHoverParams(v)
      [] name = "GotoDef" -> DeTextDocumentPositionParams(v)
      [] name = "FindAllRef" -> DeReferenceParams(v)

(* one arm of the match for a request that carries params *)
ParseRequest(v, name) ==
    IF ~RequestId(v).some THEN ParsePanic
    ELSE IF ~Lookup(v, "params").some THEN ParsePanic
    ELSE IF ~DeParams(name, Lookup(v, "params").val).some THEN ParsePanic
    ELSE ParseOk(Request(RequestId(v).val, name, DeParams(name, Lookup(v, "params").val).val))

parse_message(input) ==
    IF input.t = "notjson" THEN ParsePanic
    ELSE IF ~Lookup(input, "method").some THEN ParseErr("Method not found")
    ELSE IF ~AsStr(Lookup(input, "method").val).some THEN ParseErr("Method is not a string")
    ELSE LET name == AsStr(Lookup(input, "method").val).val
             params == Lookup(input, "params")
         IN CASE name = "shutdown" ->
                    IF RequestId(input).some
                    THEN ParseOk(Request(RequestId(input).val, "Shutdown", None))
                    ELSE ParsePanic
              [] name = "initialize" ->
                    ParseRequest(input, "Initialize")
              [] name = "textDocument/hover" ->
                    ParseRequest(input, "Hover")
              [] name = "textDocument/didChange" ->
                    IF params.some /\ DeChangeParams(params.val).some
                    THEN ParseOk(Notification("Change", DeChangeParams(params.val).val))
                    ELSE ParsePanic
              [] name = "textDocument/definition" ->
                    ParseRequest(input, "GotoDef")
              [] name = "textDocument/references" ->
                    ParseRequest(input, "FindAllRef")
              [] name = "$/cancelRequest" ->
                    IF params.some /\ DeCancelParams(params.val).some
                    THEN ParseOk(Notification("CancelRequest", DeCancelParams(params.val).val.id))
                    ELSE ParsePanic
              [] OTHER -> ParseErr("Unknown command")

----------------------------------------------------------------------------
(* Result<T, E> of a backend call *)

ResErr == [ok |-> FALSE]
ResOk(v) == [ok |-> TRUE, val |-> v]
UnwrapOr(r, d) == IF r.ok THEN r.val ELSE d

(* Path::file_name: the last component of the path, None for the empty    *)
(* path, the root and a path that ends in ".."                             *)
RECURSIVE StripTrailingSlash(_)
StripTrailingSlash(p) ==
    IF p # <<>> /\ p[Len(p)] = "/"
    THEN StripTrailingSlash(SubSeq(p, 1, Len(p) - 1))
    ELSE p

RECURSIVE LastComponent(_)
LastComponent(p) ==
    IF p = <<>> \/ p[Len(p)] = "/" THEN <<>>
    ELSE Append(LastComponent(SubSeq(p, 1, Len(p) - 1)), p[Len(p)])

file_name(p) ==
    LET c == LastComponent(StripTrailingSlash(p))
    IN IF c = <<>> \/ c = <<".", ".">> THEN None ELSE Some(c)

----------------------------------------------------------------------------
(* LSService::convert_pos_to_span *)

AlphaNumeric ==
    {"a", "b", "c", "d", "e", "f", "g", "h", "i", "j", "k", "l", "m",
     "n", "o", "p", "q", "r", "s", "t", "u", "v", "w", "x", "y", "z",
     "0", "1", "2", "3", "4", "5", "6", "7", "8", "9"}

IsIdent(c) == c \in AlphaNumeric \/ c = "_"

(* the loop of start_pos from index i on, tmp being tmp.character *)
RECURSIVE StartScan(_, _, _, _)
StartScan(line, character, i, tmp) ==
    IF i >= Len(line) THEN tmp
    ELSE LET t == IF ~IsIdent(line[i + 1]) THEN i + 1 ELSE tmp
         IN IF i = character THEN t ELSE StartScan(line, character, i + 1, t)

(* the loop of end_pos over rest = line.chars().skip(character) *)
RECURSIVE EndScan(_, _, _, _)
EndScan(rest, character, i, tmp) ==
    IF i >= Len(rest) THEN tmp
    ELSE IF ~IsIdent(rest[i + 1]) THEN tmp
    ELSE EndScan(rest, character, i + 1, i + character + 1)

Span(f, ls, cs, le, ce) ==
    [file_name |-> f, line_start |-> ls, column_start |-> cs,
     line_end |-> le, column_end |-> ce]

(* line is the Option<String> vfs.get_line returned; the result is None   *)
(* when line.unwrap() panics                                               *)
convert_pos_to_span(doc, pos, line) ==
    IF ~line.some THEN None
    ELSE Some(Span(Skip(doc.uri, Len(FilePrefix)),
                   pos.line,
                   StartScan(line.val, pos.character, 0, 1),
                   pos.line,
                   EndScan(Skip(line.val, pos.character), pos.character, 0,
                           pos.character)))

----------------------------------------------------------------------------
(* Replies *)

ResponseSuccess(id, result) == [jsonrpc |-> "2.0", id |-> id, result |-> result]

ResponseFailure(id, message) ==
    [jsonrpc |-> "2.0", id |-> id,
     error |-> [code |-> MethodNotFound, message |-> message]]

ServerCapabilities ==
    [textDocumentSync |-> Incremental,
     hoverProvider |-> TRUE,
     completionProvider |-> [resolveProvider |-> TRUE, triggerCharacters |-> <<".">>],
     signatureHelpProvider |-> [triggerCharacters |-> <<".">>],
     definitionProvider |-> TRUE,
     referencesProvider |-> TRUE,
     documentHighlightProvider |-> TRUE,
     documentSymbolProvider |-> TRUE,
     workshopSymbolProvider |-> TRUE,
     codeActionProvider |-> FALSE,
     codeLensProvider |-> FALSE,
     documentFormattingProvider |-> TRUE,
     documentRangeFormattingProvider |-> TRUE,
     renameProvider |-> TRUE]

InitializeCapabilities == [capabilities |-> ServerCapabilities]

MarkedString(language, value) == [language |-> language, value |-> value]

HoverContents_TypeFirst(ty, docs, doc_url) ==
    (IF ty # "" THEN <<MarkedString("rust", ty)>> ELSE <<>>)
    \o (IF docs # "" THEN <<MarkedString("markdown", docs)>> ELSE <<>>)
    \o (IF doc_url # "" THEN <<MarkedString("url", doc_url)>> ELSE <<>>)

(* the contents the hover worker builds from the three query results *)
HoverContents(ty, docs, doc_url) ==
    (IF docs # "" THEN <<MarkedString("markdown", docs)>> ELSE <<>>)
    \o (IF doc_url # "" THEN <<MarkedString("url", doc_url)>> ELSE <<>>)
    \o (IF ty # "" THEN <<MarkedString("rust", ty)>> ELSE <<>>)

Location(uri, range) == [uri |-> uri, range |-> range]

DefLocation_FullRange(s) ==
    Location(FilePrefix \o s.file_name,
             [start |-> [line |-> s.line_start, character |-> s.column_start],
              end |-> [line |-> s.line_end, character |-> s.column_end]])

(* the Location goto_def builds from the defining span *)
DefLocation(s) ==
    Location(FilePrefix \o s.file_name,
             [start |-> [line |-> s.line_start, character |-> s.column_start],
              end |-> [line |-> s.line_start, character |-> s.column_start]])

(* the Location find_all_refs builds from one reference span *)
RefLocation(item) ==
    Location(FilePrefix \o item.file_name,
             [start |-> [line |-> item.line_start, character |-> item.column_start],
              end |-> [line |-> item.line_end, character |-> item.column_end]])

(* the vfs Change the dispatcher builds from one content change *)
VfsChange(fname, i) ==
    [span |-> Span(fname, i.range.start.line, i.range.start.character,
                   i.range.end.line, i.range.end.character),
     text |-> i.text]

----------------------------------------------------------------------------
(* LSService::build, given the BuildResult br the queue returns and the   *)
(* result rl of analysis.reload: the collaborator calls it makes and       *)
(* whether one of its unwrap calls panics                                  *)

RequestBuildCall(path, priority, result) ==
    [op |-> "request_build", path |-> path, priority |-> priority, result |-> result]
ReloadCall(path) == [op |-> "reload", path |-> path]
OnChangeCall(changes) == [op |-> "on_change", changes |-> changes]
QueryCall(op, span, result) == [op |-> op, span |-> span, result |-> result]
GetLineCall(path, line, result) ==
    [op |-> "get_line", path |-> path, line |-> line, result |-> result]

build(project_path, priority, br, rl) ==
    IF br \in {"Success", "Failure"}
    THEN IF ~file_name(project_path).some
         THEN [calls |-> <<RequestBuildCall(project_path, priority, br)>>, panic |-> TRUE]
         ELSE [calls |-> <<RequestBuildCall(project_path, priority, br),
                           ReloadCall(project_path)>>,
               panic |-> ~rl.ok]
    ELSE [calls |-> <<RequestBuildCall(project_path, priority, br)>>, panic |-> FALSE]

----------------------------------------------------------------------------
(* The header line of a frame, split at " " as run_server does: the name  *)
(* token and the value token with its line end                             *)

DigitChars == <<"0", "1", "2", "3", "4", "5", "6", "7", "8", "9">>
IsDigit(c) == \E i \in DOMAIN DigitChars : DigitChars[i] = c
DigitVal(c) == (CHOOSE i \in DOMAIN DigitChars : DigitChars[i] = c) - 1

IsSpace(c) == c \in {" ", "\r", "\n", "\t"}

(* str::trim *)
RECURSIVE TrimEnd(_)
TrimEnd(s) ==
    IF s # <<>> /\ IsSpace(s[Len(s)]) THEN TrimEnd(SubSeq(s, 1, Len(s) - 1)) ELSE s

RECURSIVE TrimStart(_)
TrimStart(s) ==
    IF s # <<>> /\ IsSpace(s[1]) THEN TrimStart(Tail(s)) ELSE s

Trim(s) == TrimEnd(TrimStart(s))

RECURSIVE DecimalValue(_)
DecimalValue(s) ==
    IF s = <<>> THEN 0
    ELSE 10 * DecimalValue(SubSeq(s, 1, Len(s) - 1)) + DigitVal(s[Len(s)])

(* usize::from_str_radix(s, 10) *)
from_str_radix(s) ==
    IF s # <<>> /\ \A i \in DOMAIN s : IsDigit(s[i])
    THEN ResOk(DecimalValue(s))
    ELSE ResErr

(* what the loop does with the header of frame f before it parses a body  *)
HeaderResult(f) ==
    IF Len(f.header) # 2 THEN "Malformed"
    ELSE IF f.header[1] = "Content-length:" THEN "MissingContentLength"
    ELSE IF ~from_str_radix(Trim(f.header[2])).ok THEN "MissingLength"
    ELSE IF f.avail < from_str_radix(Trim(f.header[2])).val THEN "Truncated"
    ELSE "Body"

----------------------------------------------------------------------------
(* Inputs of the model *)

Ids == 0 .. MaxId

TheUri == FilePrefix \o <<"/", "a">>

Roots == {<<>>, <<"/", "p">>, <<"/", "q">>}

Positions == [line : {0}, character : 0 .. MaxChar]

(* the k-th content change of a batch: the batches of the model are the  *)
(* k-element batches <<Event(1), ..., Event(k)>> of distinct changes      *)
Event(k) ==
    [range |-> [start |-> [line |-> k - 1, character |-> 0],
                end |-> [line |-> k - 1, character |-> 3]],
     text |-> IF k = 1 THEN <<"a", "b", "c">> ELSE <<>>]

EventSeqs == {[k \in 1 .. n |-> Event(k)] : n \in 0 .. MaxChanges}

PositionJ(p) == JObj([line |-> JNum(p.line), character |-> JNum(p.character)])
RangeJ(r) == JObj([start |-> PositionJ(r.start), end |-> PositionJ(r.end)])
DocumentJ(u) == JObj([uri |-> JStr(u)])
EventJ(e) == JObj([range |-> RangeJ(e.range), text |-> JStr(e.text)])

RequestJ(i, m, ps) == JObj([id |-> JNum(i), method |-> JStr(m), params |-> ps])

ShutdownBodies == {JObj([id |-> JNum(i), method |-> JStr("shutdown")]) : i \in Ids}

InitializeBodies ==
    {RequestJ(i, "initialize", JObj([processId |-> JNum(42), rootPath |-> JStr(r)])) :
        i \in Ids, r \in Roots}

PositionBodies(m) ==
    {RequestJ(i, m, JObj([textDocument |-> DocumentJ(TheUri), position |-> PositionJ(p)])) :
        i \in Ids, p \in Positions}

ReferencesBodies ==
    {RequestJ(i, "textDocument/references",
              JObj([textDocument |-> DocumentJ(TheUri), position |-> PositionJ(p),
                    context |-> JObj([includeDeclaration |-> JBool(TRUE)])])) :
        i \in Ids, p \in Positions}

DidChangeBodies ==
    {JObj([method |-> JStr("textDocument/didChange"),
           params |-> JObj([textDocument |-> JObj([version |-> JNum(1), uri |-> JStr(TheUri)]),
                            contentChanges |-> JArr([k \in DOMAIN es |-> EventJ(es[k])])])]) :
        es \in EventSeqs}

CancelBodies ==
    {JObj([method |-> JStr("$/cancelRequest"), params |-> JObj([id |-> JNum(i)])]) : i \in Ids}

(* well-framed bodies parse_message answers with Err *)
UnknownMethodBodies ==
    {JObj([id |-> JNum(0), method |-> JStr("textDocument/completion")]),
     JObj([id |-> JNum(0)]),
     JObj([id |-> JNum(0), method |-> JNum(7)])}

(* well-framed bodies on which an unwrap of parse_message panics *)
MalformedBodies ==
    {NotJson,
     JObj([method |-> JStr("shutdown")]),
     JObj([id |-> JNum(0), method |-> JStr("textDocument/hover")]),
     RequestJ(0, "textDocument/hover", JObj([textDocument |-> DocumentJ(TheUri)]))}

Bodies ==
    ShutdownBodies \cup InitializeBodies \cup PositionBodies("textDocument/hover")
    \cup PositionBodies("textDocument/definition") \cup ReferencesBodies
    \cup DidChangeBodies \cup CancelBodies \cup UnknownMethodBodies
    \cup MalformedBodies

LengthToken == <<"9", "\r", "\n">>

Frame(header, avail, body) == [header |-> header, avail |-> avail, body |-> body]

Frames ==
    {Frame(<<"Content-Length:", LengthToken>>, 9, b) : b \in Bodies}
    \cup {Frame(<<"Content-Length:", LengthToken>>, 3, NotJson),
          Frame(<<"Content-length:", LengthToken>>, 9, NotJson),
          Frame(<<"Content-Length:", <<"x", "\r", "\n">>>>, 9, NotJson),
          Frame(<<"Content-Length:9">>, 9, NotJson),
          Frame(<<"X-Length:", LengthToken>>, 9,
                JObj([method |-> JStr("$/cancelRequest"),
                      params |-> JObj([id |-> JNum(0)])])),
          Frame(<<"">>, 0, NotJson)}

(* inputs of the resolver run: hover requests with the caret anywhere on *)
(* or just past the line, and the lines the vfs may hold for them         *)
FooBarBaz == <<"f", "o", "o", "_", "b", "a", "r", " ", "b", "a", "z">>

ResolverLines == {Some(FooBarBaz), Some(<<"a", "+", "b">>), Some(<<>>)}

ResolverPositions == [line : {0, 1}, character : 0 .. MaxCaret]

ResolverFrames ==
    {Frame(<<"Content-Length:", LengthToken>>, 9,
           RequestJ(0, "textDocument/hover",
                    JObj([textDocument |-> DocumentJ(TheUri), position |-> PositionJ(p)]))) :
        p \in ResolverPositions}

(* what the collaborators may answer *)
BuildResults == {"Success", "Failure", "Squashed", "Err"}
ReloadResults == {ResOk("reloaded"), ResErr}
VfsLines == {None, Some(<<"a", "_", " ", "b">>)}
StringResults == {ResErr, ResOk(""), ResOk("i32")}
DefSpan == Span(<<"/", "d">>, 4, 2, 4, 5)
GotoDefResults == {ResErr, ResOk(DefSpan)}
FindAllRefsResults == {ResErr, ResOk(<<>>), ResOk(<<DefSpan>>)}

----------------------------------------------------------------------------
(* State *)

NoWorker == [st |-> "none"]
NoFrame == Frame(<<>>, 0, NotJson)

Init ==
    /\ pc = "read"
    /\ frame = NoFrame
    /\ current_project = None
    /\ out = <<>>
    /\ calls = <<>>
    /\ worker = NoWorker
    /\ token = FALSE
    /\ expired = FALSE
    /\ nread = 0
    /\ nreq = 0
    /\ nnotif = 0
    /\ nreplies = 0

(* the loop reads frame f from stdin *)
Read(f) ==
    /\ pc = "read"
    /\ nread < MaxMsgs
    /\ frame' = f
    /\ nread' = nread + 1
    /\ expired' = FALSE

(* what one iteration of the loop makes of frame f: the way it leaves the *)
(* header check, or else the result of parse_message on the body          *)
Decode(f) ==
    IF HeaderResult(f) # "Body" THEN [r |-> HeaderResult(f)] ELSE parse_message(f.body)

Decoded == [f \in Frames \cup ResolverFrames |-> Decode(f)]

(* the message the dispatcher is handling, once it has read a frame *)
Msg == Decoded[frame].msg

(* the arm of the loop that frame f takes: an exit of the header check, *)
(* a failure of parse_message, or the variant of the message              *)
Arm(f) == IF Decoded[f].r = "Ok" THEN Decoded[f].msg.method ELSE Decoded[f].r

Arms ==
    {"Malformed", "MissingContentLength", "MissingLength", "Truncated", "Panic", "Err",
     "CancelRequest", "Change", "Shutdown", "Initialize", "Hover", "GotoDef", "FindAllRef"}

FramesOf == [a \in Arms |-> {f \in Frames : Arm(f) = a}]

Silent == out' = <<>> /\ calls' = <<>> /\ UNCHANGED nreplies

----------------------------------------------------------------------------
(* run_server: one iteration of the loop up to the point where it blocks  *)
(* again, returns or panics                                                *)

(* res.len() != 2: return Err("Header is malformed") *)
HeaderMalformed ==
    \E f \in FramesOf["Malformed"] :
        /\ Read(f)
        /\ pc' = "error"
        /\ Silent
        /\ UNCHANGED <<current_project, worker, token, nreq, nnotif>>

(* res[0] == "Content-length:": return Err("Header is missing ...") *)
HeaderMissingContentLength ==
    \E f \in FramesOf["MissingContentLength"] :
        /\ Read(f)
        /\ pc' = "error"
        /\ Silent
        /\ UNCHANGED <<current_project, worker, token, nreq, nnotif>>

(* the length does not parse: log and break, run_server returns Ok(()) *)
HeaderMissingLength ==
    \E f \in FramesOf["MissingLength"] :
        /\ Read(f)
        /\ pc' = "done"
        /\ Silent
        /\ UNCHANGED <<current_project, worker, token, nreq, nnotif>>

(* read_exact fails: try! returns the io::Error *)
BodyTruncated ==
    \E f \in FramesOf["Truncated"] :
        /\ Read(f)
        /\ pc' = "error"
        /\ Silent
        /\ UNCHANGED <<current_project, worker, token, nreq, nnotif>>

(* an unwrap inside parse_message panics *)
ParsePanics ==
    \E f \in FramesOf["Panic"] :
        /\ Read(f)
        /\ pc' = "panicked"
        /\ Silent
        /\ UNCHANGED <<current_project, worker, token, nreq, nnotif>>

(* ParseError as it would be if the loop returned the error *)
ParseError_Fatal ==
    \E f \in FramesOf["Err"] :
        /\ Read(f)
        /\ pc' = "error"
        /\ Silent
        /\ UNCHANGED <<current_project, worker, token, nreq, nnotif>>

(* Err(e): log "parsing invalid message" and go on with the loop *)
ParseError ==
    \E f \in FramesOf["Err"] :
        /\ Read(f)
        /\ pc' = "read"
        /\ Silent
        /\ UNCHANGED <<current_project, worker, token, nreq, nnotif>>

(* CancelRequest as it would be if it answered the notification *)
CancelRequest_Replies ==
    \E f \in FramesOf["CancelRequest"] :
        /\ Read(f)
        /\ pc' = "read"
        /\ nnotif' = nnotif + 1
        /\ out' = <<ResponseSuccess(Decoded[f].msg.params, "cancelled")>>
        /\ nreplies' = nreplies + 1
        /\ calls' = <<>>
        /\ UNCHANGED <<current_project, worker, token, nreq>>

(* Notification::CancelRequest(id): log *)
CancelRequest ==
    \E f \in FramesOf["CancelRequest"] :
        /\ Read(f)
        /\ pc' = "read"
        /\ nnotif' = nnotif + 1
        /\ Silent
        /\ UNCHANGED <<current_project, worker, token, nreq>>

(* Change as it would be if it requested the build before applying the edits *)
Change_BuildFirst ==
    \E f \in FramesOf["Change"], br \in BuildResults, rl \in ReloadResults :
        /\ Read(f)
        /\ LET change == Decoded[f].msg.params
               fname == Skip(change.textDocument.uri, Len(FilePrefix))
               changes == [i \in DOMAIN change.contentChanges |->
                              VfsChange(fname, change.contentChanges[i])]
               project == IF current_project.some THEN current_project.val ELSE <<>>
               b == build(project, "Normal", br, rl)
           IN /\ calls' = b.calls \o <<OnChangeCall(changes)>>
              /\ pc' = IF b.panic THEN "panicked" ELSE "read"
        /\ nnotif' = nnotif + 1
        /\ out' = <<>>
        /\ UNCHANGED <<current_project, worker, token, nreq, nreplies>>

(* Notification::Change(change) *)
Change ==
    \E f \in FramesOf["Change"], br \in BuildResults, rl \in ReloadResults :
        /\ Read(f)
        /\ LET change == Decoded[f].msg.params
               fname == Skip(change.textDocument.uri, Len(FilePrefix))
               changes == [i \in DOMAIN change.contentChanges |->
                              VfsChange(fname, change.contentChanges[i])]
               project == IF current_project.some THEN current_project.val ELSE <<>>
               b == build(project, "Normal", br, rl)
           IN /\ calls' = <<OnChangeCall(changes)>> \o b.calls
              /\ pc' = IF b.panic THEN "panicked" ELSE "read"
        /\ nnotif' = nnotif + 1
        /\ out' = <<>>
        /\ UNCHANGED <<current_project, worker, token, nreq, nreplies>>

(* Shutdown as it would be if it acknowledged the request *)
Shutdown_Replies ==
    \E f \in FramesOf["Shutdown"] :
        /\ Read(f)
        /\ pc' = "done"
        /\ out' = <<ResponseSuccess(Decoded[f].msg.id, "shutdown")>>
        /\ nreplies' = nreplies + 1
        /\ calls' = <<>>
        /\ UNCHANGED <<current_project, worker, token, nreq, nnotif>>

(* Shutdown as it would be without the break *)
Shutdown_NoBreak ==
    \E f \in FramesOf["Shutdown"] :
        /\ Read(f)
        /\ pc' = "read"
        /\ Silent
        /\ UNCHANGED <<current_project, worker, token, nreq, nnotif>>

(* Method::Shutdown: log and break, run_server returns Ok(()) *)
Shutdown ==
    \E f \in FramesOf["Shutdown"] :
        /\ Read(f)
        /\ pc' = "done"
        /\ Silent
        /\ UNCHANGED <<current_project, worker, token, nreq, nnotif>>

(* Initialize as it would be if it built at Normal priority *)
Initialize_NormalPriority ==
    \E f \in FramesOf["Initialize"], br \in BuildResults, rl \in ReloadResults :
        /\ Read(f)
        /\ LET init == Decoded[f].msg.params
               b == build(init.rootPath, "Normal", br, rl)
           IN /\ out' = <<ResponseSuccess(0, InitializeCapabilities)>>
              /\ current_project' = Some(init.rootPath)
              /\ calls' = b.calls
              /\ pc' = IF b.panic THEN "panicked" ELSE "read"
        /\ nreplies' = nreplies + 1
        /\ nreq' = nreq + 1
        /\ UNCHANGED <<worker, token, nnotif>>

(* Initialize as it would be if it kept a project already set *)
Initialize_KeepFirst ==
    \E f \in FramesOf["Initialize"], br \in BuildResults, rl \in ReloadResults :
        /\ Read(f)
        /\ LET init == Decoded[f].msg.params
               b == build(init.rootPath, "Immediate", br, rl)
           IN /\ out' = <<ResponseSuccess(0, InitializeCapabilities)>>
              /\ current_project' = IF current_project.some THEN current_project ELSE Some(init.rootPath)
              /\ calls' = b.calls
              /\ pc' = IF b.panic THEN "panicked" ELSE "read"
        /\ nreplies' = nreplies + 1
        /\ nreq' = nreq + 1
        /\ UNCHANGED <<worker, token, nnotif>>

(* Method::Initialize(init) *)
Initialize ==
    \E f \in FramesOf["Initialize"], br \in BuildResults, rl \in ReloadResults :
        /\ Read(f)
        /\ LET init == Decoded[f].msg.params
               b == build(init.rootPath, "Immediate", br, rl)
           IN /\ out' = <<ResponseSuccess(0, InitializeCapabilities)>>
              /\ current_project' = Some(init.rootPath)
              /\ calls' = b.calls
              /\ pc' = IF b.panic THEN "panicked" ELSE "read"
        /\ nreplies' = nreplies + 1
        /\ nreq' = nreq + 1
        /\ UNCHANGED <<worker, token, nnotif>>

(* Method::Hover, Method::GotoDef, Method::FindAllRef: the handler up to  *)
(* thread::park_timeout, for a frame of frames; line, one of lines, is    *)
(* what vfs.get_line returns, hang whether the backend query of the       *)
(* worker never returns                                                    *)
StartHandlerOn(method, frames, lines) ==
    \E f \in frames, line \in lines, hang \in BOOLEAN :
        /\ Read(f)
        /\ LET m == Decoded[f].msg
               span == convert_pos_to_span(m.params.textDocument, m.params.position, line)
           IN /\ calls' = <<GetLineCall(Skip(m.params.textDocument.uri, Len(FilePrefix)),
                                        m.params.position.line, line)>>
              /\ IF span.some
                 THEN /\ pc' = "parked"
                      /\ worker' = [st |-> "running", method |-> method, id |-> m.id,
                                    span |-> span.val, hang |-> hang]
                 ELSE /\ pc' = "panicked"
                      /\ worker' = worker
        /\ nreq' = nreq + 1
        /\ out' = <<>>
        /\ UNCHANGED <<current_project, token, nnotif, nreplies>>

StartHandler(method) == StartHandlerOn(method, FramesOf[method], VfsLines)

hover == StartHandler("Hover")
goto_def == StartHandler("GotoDef")
find_all_refs == StartHandler("FindAllRef")

----------------------------------------------------------------------------
(* The worker thread of the running handler *)

(* the backend queries of the worker return q, the calls with their       *)
(* results; the worker calls t.unpark()                                    *)
WorkerComplete ==
    /\ worker.st = "running"
    /\ ~worker.hang
    /\ \E q \in
           CASE worker.method = "Hover" ->
                    {<<QueryCall("show_type", worker.span, ty),
                       QueryCall("docs", worker.span, docs),
                       QueryCall("doc_url", worker.span, doc_url)>> :
                        ty \in StringResults, docs \in StringResults,
                        doc_url \in StringResults}
             [] worker.method = "GotoDef" ->
                    {<<QueryCall("goto_def", worker.span, r)>> : r \in GotoDefResults}
             [] worker.method = "FindAllRef" ->
                    {<<QueryCall("find_all_refs", worker.span, r)>> :
                        r \in FindAllRefsResults} :
           /\ calls' = calls \o q
           /\ worker' =
                  [st |-> "unparked", method |-> worker.method, id |-> worker.id,
                   span |-> worker.span, hang |-> worker.hang,
                   val |-> CASE worker.method = "Hover" ->
                                    [ty |-> UnwrapOr(q[1].result, ""),
                                     docs |-> UnwrapOr(q[2].result, ""),
                                     doc_url |-> UnwrapOr(q[3].result, "")]
                             [] worker.method = "GotoDef" ->
                                    IF q[1].result.ok THEN <<DefLocation(q[1].result.val)>>
                                    ELSE <<>>
                             [] worker.method = "FindAllRef" -> q[1].result]
    /\ token' = TRUE
    /\ UNCHANGED <<pc, frame, current_project, out, expired,
                   nread, nreq, nnotif, nreplies>>

(* the backend query panics: the worker dies without calling unpark *)
WorkerPanic ==
    /\ worker.st = "running"
    /\ ~worker.hang
    /\ worker' = [worker EXCEPT !.st = "panicked"]
    /\ UNCHANGED <<pc, frame, current_project, out, calls, token, expired,
                   nread, nreq, nnotif, nreplies>>

(* the closure returns its value and the thread ends *)
WorkerReturn ==
    /\ worker.st = "unparked"
    /\ worker' =
           [st |-> "finished", method |-> worker.method, id |-> worker.id,
            span |-> worker.span, hang |-> worker.hang,
            ret |-> IF worker.method = "Hover"
                    THEN ResponseSuccess(worker.id,
                             [contents |-> HoverContents(worker.val.ty, worker.val.docs,
                                                         worker.val.doc_url)])
                    ELSE worker.val]
    /\ UNCHANGED <<pc, frame, current_project, out, calls, token, expired,
                   nread, nreq, nnotif, nreplies>>

----------------------------------------------------------------------------
(* The handler from thread::park_timeout on *)

(* park_timeout returns because the park token is set, and consumes it *)
ParkWake ==
    /\ pc = "parked"
    /\ token
    /\ token' = FALSE
    /\ pc' = "join"
    /\ UNCHANGED <<frame, current_project, out, calls, worker, expired,
                   nread, nreq, nnotif, nreplies>>

(* park_timeout returns because RUSTW_TIMEOUT milliseconds have passed *)
ParkTimeout ==
    /\ pc = "parked"
    /\ ~token
    /\ pc' = "join"
    /\ expired' = (worker.st = "running")
    /\ UNCHANGED <<frame, current_project, out, calls, worker, token,
                   nread, nreq, nnotif, nreplies>>

JoinReply_PanicIgnored ==
    CASE worker.method = "Hover" ->
             IF worker.st = "finished" THEN worker.ret
             ELSE ResponseSuccess(worker.id, [contents |-> <<>>])
      [] worker.method = "GotoDef" ->
             IF worker.st = "finished" THEN ResponseSuccess(worker.id, worker.ret)
             ELSE ResponseSuccess(worker.id, <<>>)
      [] worker.method = "FindAllRef" ->
             LET result == IF worker.st = "finished" /\ worker.ret.ok
                           THEN worker.ret.val ELSE <<>>
             IN ResponseSuccess(worker.id,
                                [i \in DOMAIN result |-> RefLocation(result[i])])

(* the reply the handler writes once join() has returned *)
JoinReply ==
    CASE worker.method = "Hover" ->
             IF worker.st = "finished" THEN worker.ret
             ELSE ResponseFailure(worker.id, "Hover failed to complete successfully")
      [] worker.method = "GotoDef" ->
             IF worker.st = "finished" THEN ResponseSuccess(worker.id, worker.ret)
             ELSE ResponseFailure(worker.id, "GotoDef failed to complete successfully")
      [] worker.method = "FindAllRef" ->
             LET result == IF worker.st = "finished" /\ worker.ret.ok
                           THEN worker.ret.val ELSE <<>>
             IN ResponseSuccess(worker.id,
                                [i \in DOMAIN result |-> RefLocation(result[i])])

(* the handler as it would be if it answered without waiting for the     *)
(* worker thread to end                                                    *)
Join_NoWait ==
    /\ pc = "join"
    /\ out' = Append(out, JoinReply)
    /\ nreplies' = nreplies + 1
    /\ worker' = worker
    /\ pc' = "read"
    /\ UNCHANGED <<frame, current_project, calls, token, expired,
                   nread, nreq, nnotif>>

(* JoinHandle::join returns when the worker thread has ended; the handler *)
(* writes its reply and the loop goes back to read_line                    *)
Join ==
    /\ pc = "join"
    /\ worker.st \in {"finished", "panicked"}
    /\ out' = Append(out, JoinReply)
    /\ nreplies' = nreplies + 1
    /\ worker' = NoWorker
    /\ pc' = "read"
    /\ UNCHANGED <<frame, current_project, calls, token, expired,
                   nread, nreq, nnotif>>

----------------------------------------------------------------------------

Next ==
    \/ HeaderMalformed
    \/ HeaderMissingContentLength
    \/ HeaderMissingLength
    \/ BodyTruncated
    \/ ParsePanics
    \/ ParseError
    \/ CancelRequest
    \/ Change
    \/ Shutdown
    \/ Initialize
    \/ hover
    \/ goto_def
    \/ find_all_refs
    \/ WorkerComplete
    \/ WorkerPanic
    \/ WorkerReturn
    \/ ParkWake
    \/ ParkTimeout
    \/ Join

Spec == Init /\ [][Next]_vars

(* The resolver run: one hover request of ResolverFrames is read and its *)
(* handler resolves the caret on a line of ResolverLines                  *)
resolve == StartHandlerOn("Hover", ResolverFrames, ResolverLines)

ResolverSpec == Init /\ [][resolve]_vars

(* The scheduler runs every thread that can take a step, and the clock    *)
(* advances: the deadline of park_timeout passes, a worker whose query    *)
(* returns goes on.  Nothing obliges the editor to send another frame,    *)
(* and a query that panics is not owed.                                    *)
FairSpec ==
    /\ Spec
    /\ WF_vars(ParkWake)
    /\ WF_vars(ParkTimeout)
    /\ WF_vars(Join)
    /\ WF_vars(WorkerComplete)
    /\ WF_vars(WorkerReturn)

----------------------------------------------------------------------------
(* Properties *)

(* the frame just read is the one the step from the unprimed state read *)
ReadsArm(arms) == nread' = nread + 1 /\ Arm(frame') \in arms

Handling(arms) == nread > 0 /\ Arm(frame) \in arms

IsFailure(r) == "error" \in DOMAIN r /\ r.error.code = -32601
IsSuccess(r) == "result" \in DOMAIN r

(* C1: every reply written while a request with id I is handled carries   *)
(* id I, whatever the request (Initialize, Hover, GotoDef, FindAllRef)    *)
C1_IdPreservation ==
    Handling({"Initialize", "Hover", "GotoDef", "FindAllRef"}) =>
        \A i \in DOMAIN out : out[i].id = Msg.id

C3_BoundedLatency ==
    (pc = "parked" /\ worker.st = "running" /\ worker.hang /\ nread < MaxMsgs)
        ~> (pc = "read" /\ Len(out) = 1)

(* C4: a reply written after the deadline ran out on a running worker is  *)
(* the fallback of the handler: a failure with code -32601 for Hover and  *)
(* GotoDef, a success with the empty array for FindAllRef                  *)
C4_TimeoutFallback ==
    (expired /\ out # <<>>) =>
        IF Msg.method \in {"Hover", "GotoDef"}
        THEN IsFailure(out[1])
        ELSE IsSuccess(out[1]) /\ out[1].result = <<>>

(* C5: the step that handles a Change or a CancelRequest notification     *)
(* writes no reply                                                         *)
C5_NotificationsSilent ==
    [][ReadsArm({"Change", "CancelRequest"}) => (nreplies' = nreplies /\ out' = <<>>)]_vars

C5_Witness ==
    /\ Handling({"Change"})
    /\ nreplies >= 1
    /\ out = <<>>
    /\ calls # <<>>

(* C6: the step that handles Shutdown writes no reply and makes no call,  *)
(* it leaves run_server returned with Ok, and from then on nothing is     *)
(* read, written or called                                                 *)
C6_Shutdown ==
    [][/\ ReadsArm({"Shutdown"}) =>
              (pc' = "done" /\ nreplies' = nreplies /\ out' = <<>> /\ calls' = <<>>)
       /\ pc = "done" => UNCHANGED vars]_vars

C6_Witness ==
    /\ pc = "done"
    /\ Handling({"Shutdown"})
    /\ nread < MaxMsgs
    /\ nreplies >= 1

(* C7: handling Initialize with rootPath P writes one success reply that  *)
(* carries the fixed capabilities, sets current_project to P and calls    *)
(* request_build once, with P and Immediate                                *)
C7_Initialize ==
    Handling({"Initialize"}) =>
        /\ Len(out) = 1
        /\ IsSuccess(out[1])
        /\ out[1].result.capabilities = ServerCapabilities
        /\ current_project = Some(Msg.params.rootPath)
        /\ Cardinality({i \in DOMAIN calls : calls[i].op = "request_build"}) = 1
        /\ calls[1].op = "request_build"
        /\ calls[1].path = Msg.params.rootPath
        /\ calls[1].priority = "Immediate"

C7_Witness ==
    /\ Handling({"Initialize"})
    /\ Msg.params.rootPath = <<"/", "q">>
    /\ Msg.id = 1
    /\ pc = "read"
    /\ nread >= 2

(* C8: handling Change calls vfs.on_change once, with one edit per        *)
(* ChangeEvent in the order of the events, then request_build once, with  *)
(* Normal priority and current_project (the empty path when unset); both  *)
(* calls are made by the time the loop reads again                         *)
C8_ChangeOrdering ==
    Handling({"Change"}) =>
        LET events == Msg.params.contentChanges
            project == IF current_project.some THEN current_project.val ELSE <<>>
        IN /\ Len(calls) >= 2
           /\ calls[1].op = "on_change"
           /\ Len(calls[1].changes) = Len(events)
           /\ \A i \in DOMAIN events :
                  /\ calls[1].changes[i].text = events[i].text
                  /\ calls[1].changes[i].span.line_start = events[i].range.start.line
                  /\ calls[1].changes[i].span.column_start = events[i].range.start.character
                  /\ calls[1].changes[i].span.line_end = events[i].range.end.line
                  /\ calls[1].changes[i].span.column_end = events[i].range.end.character
           /\ calls[2].op = "request_build"
           /\ calls[2].path = project
           /\ calls[2].priority = "Normal"
           /\ Cardinality({i \in DOMAIN calls : calls[i].op = "on_change"}) = 1
           /\ Cardinality({i \in DOMAIN calls : calls[i].op = "request_build"}) = 1

C8_Witness ==
    /\ Handling({"Change"})
    /\ pc = "read"
    /\ current_project.some
    /\ Len(Msg.params.contentChanges) = 2
    /\ Msg.params.contentChanges[1] # Msg.params.contentChanges[2]

(* C9: current_project starts unset; a step changes it only by handling   *)
(* Initialize, which sets it to the rootPath of the request; once set it  *)
(* stays set                                                               *)
C9_CurrentProject ==
    /\ current_project = None
    /\ [][/\ current_project' # current_project => ReadsArm({"Initialize"})
          /\ ReadsArm({"Initialize"}) => current_project' = Some(Decoded[frame'].msg.params.rootPath)
          /\ current_project.some => current_project'.some]_vars

C9_Witness ==
    /\ Handling({"Initialize"})
    /\ current_project = Some(<<"/", "q">>)
    /\ nread = 3
    /\ nreq = 2
    /\ nnotif = 1

KnownMethods ==
    {"shutdown", "initialize", "textDocument/hover", "textDocument/didChange",
     "textDocument/definition", "textDocument/references", "$/cancelRequest"}

(* a JSON object whose method is absent, not a string or not a known one *)
NoKnownMethod(body) ==
    /\ body.t = "obj"
    /\ \/ "method" \notin DOMAIN body.o
       \/ body.o.method.t # "str"
       \/ body.o.method.s \notin KnownMethods

(* the well-framed frames of the model that carry such a body *)
UnknownMethodFrames ==
    {f \in Frames : HeaderResult(f) = "Body" /\ NoKnownMethod(f.body)}

(* C10: a well-framed message whose method is unknown, absent or not a    *)
(* string is a parse error: the step that reads it writes no reply, makes *)
(* no call, leaves the session state as it was and leaves the loop at its *)
(* next read                                                               *)
C10_UnknownMethod ==
    [][(nread' = nread + 1 /\ frame' \in UnknownMethodFrames) =>
          /\ parse_message(frame'.body).r = "Err"
          /\ pc' = "read"
          /\ out' = <<>>
          /\ calls' = <<>>
          /\ UNCHANGED <<current_project, worker, token, nreq, nnotif, nreplies>>]_vars

C10_Witness ==
    /\ nread > 0
    /\ frame \in UnknownMethodFrames
    /\ pc = "read"
    /\ nread < MaxMsgs
    /\ current_project.some

(* the well-framed frames of the model whose body is not JSON or lacks a *)
(* field its known method requires (id, params, a field of params)        *)
MalformedContentFrames ==
    {f \in Frames : HeaderResult(f) = "Body" /\ f.body \in MalformedBodies}

(* C11: a well-framed message whose body is not valid JSON, or whose      *)
(* known method lacks a required field, is a per-message parse error: the *)
(* step that reads it writes no reply and leaves the loop at its next     *)
(* read, the session going on                                              *)
C11_MalformedContent ==
    [][(nread' = nread + 1 /\ frame' \in MalformedContentFrames) =>
          /\ pc' = "read"
          /\ out' = <<>>
          /\ nreplies' = nreplies]_vars

(* the frames of the model whose header line is `Content-Length: N` with *)
(* an integer N and whose body has at least N bytes                       *)
WellFramedFrames ==
    {f \in Frames :
        /\ Len(f.header) = 2
        /\ f.header[1] = "Content-Length:"
        /\ from_str_radix(Trim(f.header[2])).ok
        /\ f.avail >= from_str_radix(Trim(f.header[2])).val}

(* C12: the step that reads a frame without the Content-Length name, with *)
(* a length that is not an integer or with a body shorter than the length *)
(* leaves run_server returned with an I/O error; the step that reads a    *)
(* frame `Content-Length: N` with enough bytes takes the body to          *)
(* parse_message and does not return an I/O error                         *)
C12_FatalFraming ==
    [][nread' = nread + 1 =>
          IF frame' \in WellFramedFrames
          THEN pc' # "error" /\ Decoded[frame'].r \in {"Ok", "Err", "Panic"}
          ELSE pc' = "error"]_vars

(* C13: a Hover, GotoDef or FindAllRef request for a line the vfs does   *)
(* not have does not abort the session: the handler goes on to its one    *)
(* reply and the loop to its next read                                     *)
C13_MissingLine ==
    (/\ Handling({"Hover", "GotoDef", "FindAllRef"})
     /\ calls # <<>>
     /\ calls[1].op = "get_line"
     /\ ~calls[1].result.some) =>
        /\ pc # "panicked"
        /\ pc = "read" => Len(out) = 1

(* the resolver has acted: the hover handler of the resolver run is past *)
(* convert_pos_to_span, for the caret and the line recorded here          *)
Resolved == pc = "parked" /\ calls # <<>> /\ calls[1].op = "get_line"

Caret == Msg.params.position

CaretLine == calls[1].result.val

OnIdent == Caret.character < Len(CaretLine) /\ IsIdent(CaretLine[Caret.character + 1])

(* zero-based index of the first character of the identifier around index c *)
IdentStart(line, c) ==
    CHOOSE j \in 0 .. c :
        /\ \A k \in j .. c : IsIdent(line[k + 1])
        /\ j = 0 \/ ~IsIdent(line[j])

(* C14: on the line foo_bar baz, for every caret index inside foo_bar    *)
(* (0 through 6), the span has column_start = 1 and column_end = 8, and   *)
(* line_start = line_end = the requested line                              *)
C14_IdentifierSpan ==
    (Resolved /\ CaretLine = FooBarBaz /\ Caret.character \in 0 .. 6) =>
        /\ worker.span.column_start = 1
        /\ worker.span.column_end = 8
        /\ worker.span.line_start = Caret.line
        /\ worker.span.line_end = Caret.line

(* C15: with the caret inside an identifier, column_start is the         *)
(* one-based column of the identifier's first character, whether the      *)
(* identifier starts the line or follows a non-identifier character       *)
C15_StartColumnOneBased ==
    (Resolved /\ OnIdent) =>
        worker.span.column_start = IdentStart(CaretLine, Caret.character) + 1

(* C16: with the caret on a character that is neither alphanumeric nor   *)
(* '_', column_start = column_end = the caret's character index, so       *)
(* column_start never exceeds column_end                                   *)
C16_NonIdentifierCollapses ==
    (Resolved /\ Caret.character < Len(CaretLine) /\ ~OnIdent) =>
        /\ worker.span.column_start = Caret.character
        /\ worker.span.column_end = Caret.character
        /\ worker.span.column_start <= worker.span.column_end

(* the worker of the handled request completed its queries and the       *)
(* handler has written its reply                                           *)
Replied(method, ncalls) ==
    Handling({method}) /\ Len(calls) = ncalls /\ out # <<>>

(* the result of the k-th recorded call, a failed query counting as ""    *)
FieldOf(k) == IF calls[k].result.ok THEN calls[k].result.val ELSE ""

NonEmptyValue(m) == m.value # ""

(* C17: when the hover worker completes, the contents of the reply hold  *)
(* one MarkedString per non-empty field among docs, doc URL and type, in  *)
(* that order (markdown, url, rust); a failed query counts as empty, and  *)
(* with all three empty the reply is a success with empty contents         *)
C17_HoverContents ==
    Replied("Hover", 4) =>
        /\ Len(out) = 1
        /\ IsSuccess(out[1])
        /\ out[1].result.contents =
               SelectSeq(<<[language |-> "markdown", value |-> FieldOf(3)],
                           [language |-> "url", value |-> FieldOf(4)],
                           [language |-> "rust", value |-> FieldOf(2)]>>,
                         NonEmptyValue)

C17_Witness ==
    /\ Replied("Hover", 4)
    /\ ~calls[2].result.ok
    /\ FieldOf(3) # ""
    /\ FieldOf(4) # ""

C17_WitnessAllEmpty ==
    /\ Replied("Hover", 4)
    /\ \A k \in 2 .. 4 : FieldOf(k) = ""
    /\ out[1].result.contents = <<>>

(* C18: when the backend returns a defining span the GotoDef reply is a  *)
(* success whose result is one location with start = end = the            *)
(* definition's line_start and column_start; when it returns none, the    *)
(* reply is a success whose result is the empty array                      *)
C18_GotoDefResult ==
    Replied("GotoDef", 2) =>
        /\ Len(out) = 1
        /\ IsSuccess(out[1])
        /\ LET r == calls[2].result
               at == [line |-> r.val.line_start, character |-> r.val.column_start]
           IN IF r.ok
              THEN /\ Len(out[1].result) = 1
                   /\ out[1].result[1].range.start = at
                   /\ out[1].result[1].range.end = at
              ELSE out[1].result = <<>>

C18_Witness == Replied("GotoDef", 2) /\ calls[2].result.ok

C18_WitnessNone == Replied("GotoDef", 2) /\ ~calls[2].result.ok

CallsOf(op) == {i \in DOMAIN calls : calls[i].op = op}

(* C19: a Change handled while current_project is unset requests one     *)
(* Normal-priority build of the empty path, and the dispatcher goes on to *)
(* read the next message whichever BuildResult the build queue returns     *)
C19_ChangeBeforeInitialize ==
    (Handling({"Change"}) /\ ~current_project.some) =>
        /\ \E i \in CallsOf("request_build") :
               /\ calls[i].path = <<>>
               /\ calls[i].priority = "Normal"
               /\ calls[i].result \in BuildResults
        /\ pc = "read"

(* C20: a call of build(path, priority) makes exactly one                *)
(* request_build(path, priority); on Success or Failure analysis.reload   *)
(* is called exactly once, with the same path, before the next read; on   *)
(* Squashed or Err it is not called                                        *)
C20_BuildThenReload ==
    Handling({"Initialize", "Change"}) =>
        /\ Cardinality(CallsOf("request_build")) = 1
        /\ \A i \in CallsOf("request_build") :
               IF calls[i].result \in {"Success", "Failure"}
               THEN /\ Cardinality(CallsOf("reload")) = 1
                    /\ \A j \in CallsOf("reload") : j > i /\ calls[j].path = calls[i].path
               ELSE CallsOf("reload") = {}

(* the one reply owed for a request whose worker failed: a failure with  *)
(* code -32601 and the id of the request for Hover and GotoDef, a success *)
(* with the empty array for FindAllRef; the loop is back at its read       *)
FailedWorkerReply ==
    /\ pc = "read"
    /\ Len(out) = 1
    /\ IF Msg.method \in {"Hover", "GotoDef"}
       THEN IsFailure(out[1]) /\ out[1].id = Msg.id
       ELSE IsSuccess(out[1]) /\ out[1].result = <<>>

(* C21: when the worker of a Hover or GotoDef request panics, exactly    *)
(* one failure envelope with code -32601 and the request's id is written; *)
(* when the worker of a FindAllRef request panics, or the backend returns *)
(* an error to it, a success envelope with the empty array is written;    *)
(* each time the dispatcher gets back to reading the next message          *)
C21_WorkerPanic ==
    /\ [][(pc = "join" /\ worker.st = "panicked") => FailedWorkerReply']_vars
    /\ [](Replied("FindAllRef", 2) /\ ~calls[2].result.ok => FailedWorkerReply)
    /\ (worker.st = "panicked") ~> (pc = "read")

C21_Witness ==
    /\ Handling({"Hover"})
    /\ Msg.id = 1
    /\ Len(calls) = 1
    /\ out # <<>>
    /\ IsFailure(out[1])
    /\ pc = "read"

C21_WitnessFindAllRef ==
    /\ Handling({"FindAllRef"})
    /\ Len(calls) = 1
    /\ out # <<>>
    /\ pc = "read"

(* a worker thread exists and has not ended *)
WorkerAlive == worker.st \in {"running", "unparked"}

(* C22: a worker is spawned only when no worker is alive, so at most one *)
(* is alive at any time; no worker of an earlier request is alive when    *)
(* the loop reads the next message; and a reply is written only as the    *)
(* one reply of the request being handled (for the worker-backed requests *)
(* it carries that request's id), so replies leave in the order in which  *)
(* their requests arrived                                                  *)
C22_SequentialHandling ==
    [][/\ (nreq' = nreq + 1 /\ pc' = "parked") => worker = NoWorker
       /\ nread' = nread + 1 => ~WorkerAlive
       /\ nreplies' # nreplies =>
              /\ nreplies' = nreplies + 1
              /\ Len(out') = 1
              /\ Arm(frame') \in {"Err", "Initialize", "Hover", "GotoDef", "FindAllRef"}
              /\ Arm(frame') \in {"Hover", "GotoDef", "FindAllRef"} =>
                     (nread' = nread /\ out'[1].id = Msg'.id)]_vars

C22_Witness ==
    /\ pc = "parked"
    /\ WorkerAlive
    /\ nreq >= 2
    /\ nreplies >= 2
    /\ worker.id = 1

(* C23: when a handler starts its park_timeout no unpark of an earlier   *)
(* request's worker is pending on the dispatcher thread, so the wait ends *)
(* only because the worker of the current request called unpark or the    *)
(* deadline passed                                                         *)
C23_NoStaleWakeup ==
    [][/\ (nreq' = nreq + 1 /\ pc' = "parked") => ~token'
       /\ (pc = "parked" /\ pc' = "join" /\ token) =>
              worker.st \in {"unparked", "finished"}]_vars

====
